---- MODULE Spec2Model ----
(***************************************************************************)
(* State-machine model of blocksatcli/api/demorx.py (class DemoRx): the    *)
(* subscription loop (run), the catch-up engine (_handle_event) and the    *)
(* rate-limited dispatcher (_send_pkts).                                   *)
(*                                                                         *)
(* Time is an integer number of milliseconds.  Inside one _send_pkts call  *)
(* the clock `now` is kept relative to the instant of entry.               *)
(***************************************************************************)
EXTENDS Integers, Sequences, FiniteSets, TLC

\* ---------------------------------------------------------------- bounds
MaxSeq == 3          \* events carry tx_seq_num in 0..MaxSeq
MaxData == 3         \* a payload has 1..MaxData bytes
MaxWriteDur == 2     \* one sock.send takes 0..MaxWriteDur ms
MaxOvershoot == 1    \* time.sleep may wake up to MaxOvershoot ms late
NumSocks == 2        \* number of configured sockets (len(self.socks))

\* ------------------------------------------------------------- constants
None == -1                   \* Python's None (sequence numbers, sizes are >= 0)
tx_event == "transmitting"   \* self.tx_event, the configured trigger status
channel == 1                 \* self.channel
RetryDelay == 2              \* the argument of time.sleep in run's handlers
HeaderLen == 1               \* serialized header bytes of one packet
MaxPayload == 2              \* payload bytes carried by one packet
KbpsChoices == {4, 8}        \* values of self.kbps tried
Statuses == {"transmitting", "sent"}

VARIABLES
    kbps,            \* self.kbps
    last_seq_num,    \* self.last_seq_num
    pc,              \* position of the single thread of control
    exc,             \* the exception being handled by run ("" when none)
    waited,          \* seconds slept by the except clause that handled exc
    exitCause,       \* why run was left ("" while it is running)
    \* locals of _handle_event
    order, seq_num, rx_pending, next_seq_num, data, pkts,
    \* locals of _send_pkts
    i, j, next_tx, now,
    \* history of the current (or last) event
    entryLast,       \* last_seq_num when _handle_event was entered
    evStatus, evSeq, \* status and tx_seq_num of the event
    evState,         \* "idle", "running", "returned" or "raised"
    evExc,           \* the exception that ended _handle_event ("" when none)
    evAssigned,      \* values assigned to last_seq_num, in order
    evFetched,       \* sequence numbers whose get_data was called, in order
    evNone,          \* sequence numbers whose get_data returned None
    evConfirmed,     \* sequence numbers whose confirm_tx returned, in order
    \* history of the current loop iteration of _handle_event
    sent,            \* writes [seq_num, frag, sock] done by sock.send, in order
    late,            \* some packet's deadline had already passed
    wEnd,            \* clock when the writes of the final packet ended
    ov,              \* how late the sleep after the final packet woke up
    \* history of the feed
    gapless,         \* the trigger events so far start at null and have no gap
    firstTrig,       \* tx_seq_num of the first trigger event (while gapless)
    prevTrig,        \* tx_seq_num of the previous trigger event (while gapless)
    allFetched       \* every get_data call so far (while gapless)

handlerLocals == <<order, seq_num, rx_pending, next_seq_num, data, pkts>>
sendLocals == <<i, j, next_tx, now>>
evHead == <<entryLast, evStatus, evSeq>>
evLog == <<evAssigned, evFetched, evNone, evConfirmed>>
sendHist == <<sent, late, wEnd, ov>>
feedHist == <<gapless, firstTrig, prevTrig, allFetched>>
vars == <<kbps, last_seq_num, pc, exc, waited, exitCause, handlerLocals,
          sendLocals, evHead, evState, evExc, evLog, sendHist, feedHist>>

\* ------------------------------------------------------------ exceptions
\* The base class of each exception class (requests.exceptions and builtins).
ExcParent ==
    [ChunkedEncodingError |-> "RequestException",
     ConnectionError |-> "RequestException",
     HTTPError |-> "RequestException",
     RequestException |-> "OSError",
     OSError |-> "Exception",
     TypeError |-> "Exception",
     ValueError |-> "Exception",
     Exception |-> "BaseException",
     KeyboardInterrupt |-> "BaseException"]

RECURSIVE IsInstance(_, _)
IsInstance(e, cls) ==
    IF e = cls THEN TRUE
    ELSE IF e \in DOMAIN ExcParent THEN IsInstance(ExcParent[e], cls)
    ELSE FALSE

\* What requests.get / raise_for_status can raise while connecting.
ConnectFailures == {"ConnectionError", "HTTPError", "RequestException"}
\* What a streamed or plain HTTP exchange can raise.
RequestFailures ==
    {"ChunkedEncodingError", "ConnectionError", "HTTPError", "RequestException"}

\* Positions inside run's try block.
TryPcs == {"connect", "events", "loop", "fetch", "split", "send",
           "sock", "throttle", "confirm"}
\* Positions inside _handle_event.
HandlerPcs == TryPcs \ {"connect", "events"}

\* ---------------------------------------------------------- the feed
NoOrder == [kind |-> "none"]
Events == [status : Statuses, tx_seq_num : 0..MaxSeq, message_size : 1..MaxData]

\* Line 18: the modulus of the sequence numbers (2**31 in the source), here
\* the number after the largest sequence number of the feed.
MAX_SEQ_NUM == MaxSeq + 1

\* ------------------------------------------------------ pure functions
Min(a, b) == IF a <= b THEN a ELSE b

\* ByteRate taking the rate in bits for a rate in bytes.
ByteRate_Bits(k) == k * 1000

\* byte_rate = self.kbps * 1e3 / 8   (bytes per second)
ByteRate(k) == (k * 1000) \div 8

\* tx_delay = len(pkt) / byte_rate, in milliseconds
TxDelay(len, k) == (len * 1000) \div ByteRate(k)

\* BlocksatPktHandler.split + get_frags: the payload of n bytes cut into
\* packets of at most MaxPayload payload bytes, tagged with seq and chan.
NumFrags(n) == (n + MaxPayload - 1) \div MaxPayload
Frags(n, seq, chan) ==
    [k \in 1..NumFrags(n) |->
        [seq_num |-> seq, chan |-> chan, frag |-> k - 1,
         len |-> HeaderLen + Min(MaxPayload, n - (k - 1) * MaxPayload)]]

RECURSIVE SumLen(_)
SumLen(ps) == IF ps = <<>> THEN 0 ELSE Head(ps).len + SumLen(Tail(ps))

\* ----------------------------------------------------------------- Init
Init ==
    /\ kbps \in KbpsChoices
    /\ last_seq_num = None
    /\ pc = "connect"
    /\ exc = ""
    /\ waited = 0
    /\ exitCause = ""
    /\ order = NoOrder
    /\ seq_num = None
    /\ rx_pending = FALSE
    /\ next_seq_num = None
    /\ data = None
    /\ pkts = <<>>
    /\ i = 0
    /\ j = 0
    /\ next_tx = 0
    /\ now = 0
    /\ entryLast = None
    /\ evStatus = ""
    /\ evSeq = None
    /\ evState = "idle"
    /\ evExc = ""
    /\ evAssigned = <<>>
    /\ evFetched = <<>>
    /\ evNone = {}
    /\ evConfirmed = <<>>
    /\ sent = <<>>
    /\ late = FALSE
    /\ wEnd = 0
    /\ ov = 0
    /\ gapless = TRUE
    /\ firstTrig = None
    /\ prevTrig = None
    /\ allFetched = <<>>

\* The frames of _handle_event and _send_pkts are gone (and with them the
\* history of the loop iteration that was running).
ClearLocals ==
    /\ order' = NoOrder
    /\ seq_num' = None
    /\ rx_pending' = FALSE
    /\ next_seq_num' = None
    /\ data' = None
    /\ pkts' = <<>>
    /\ i' = 0
    /\ j' = 0
    /\ next_tx' = 0
    /\ now' = 0
    /\ sent' = <<>>
    /\ late' = FALSE
    /\ wEnd' = 0
    /\ ov' = 0

\* Raise with a handler of its own inside the loop of _handle_event: a
\* failure of the fetch, split, write or confirmation is noted, the
\* iteration is dropped and the loop goes on.
Raise_CaughtInLoop(e) ==
    IF pc \in {"fetch", "split", "sock", "confirm"} /\ e # "KeyboardInterrupt"
    THEN /\ pc' = "loop"
         /\ evExc' = e
         /\ data' = None
         /\ pkts' = <<>>
         /\ i' = 0
         /\ j' = 0
         /\ next_tx' = 0
         /\ now' = 0
         /\ sent' = <<>>
         /\ late' = FALSE
         /\ wEnd' = 0
         /\ ov' = 0
         /\ UNCHANGED <<exc, order, seq_num, rx_pending, next_seq_num, evState>>
    ELSE /\ pc' = "except"
         /\ exc' = e
         /\ ClearLocals
         /\ evState' = IF evState = "running" THEN "raised" ELSE evState
         /\ evExc' = IF evState = "running" THEN e ELSE evExc

\* Exception e is raised inside run's try block: the frames below run are
\* unwound and control reaches the except clauses.
Raise(e) ==
    /\ pc' = "except"
    /\ exc' = e
    /\ ClearLocals
    /\ evState' = IF evState = "running" THEN "raised" ELSE evState
    /\ evExc' = IF evState = "running" THEN e ELSE evExc

\* --------------------------------------------------------------- run
\* Lines 172-177: requests.get, raise_for_status, SSEClient.
Connect ==
    /\ pc = "connect"
    /\ \/ /\ pc' = "events"
          /\ UNCHANGED <<exc, handlerLocals, sendLocals, sendHist, evState, evExc>>
       \/ \E e \in ConnectFailures : Raise(e)
    /\ UNCHANGED <<kbps, last_seq_num, waited, exitCause, evHead, evLog, feedHist>>

\* Line 180: iterating client.events() fails in the middle of the stream.
StreamFail ==
    /\ pc = "events"
    /\ \E e \in RequestFailures : Raise(e)
    /\ UNCHANGED <<kbps, last_seq_num, waited, exitCause, evHead, evLog, feedHist>>

\* Line 180: the server closes the stream and the for loop ends.
StreamEnd ==
    /\ pc = "events"
    /\ pc' = "reconnect"
    /\ UNCHANGED <<kbps, last_seq_num, exc, waited, exitCause, handlerLocals,
                   sendLocals, evHead, evState, evExc, evLog, sendHist, feedHist>>

\* ExceptClause with the clause of the base class RequestException first.
ExceptClause_BaseFirst(e) ==
    IF IsInstance(e, "RequestException") THEN "RequestException"
    ELSE IF IsInstance(e, "ChunkedEncodingError") THEN "ChunkedEncodingError"
    ELSE IF IsInstance(e, "ConnectionError") THEN "ConnectionError"
    ELSE IF IsInstance(e, "KeyboardInterrupt") THEN "KeyboardInterrupt"
    ELSE ""

\* The except clause of run that takes exception e: the first one, in
\* source order, whose class e is an instance of ("" when none does).
ExceptClause(e) ==
    IF IsInstance(e, "ChunkedEncodingError") THEN "ChunkedEncodingError"
    ELSE IF IsInstance(e, "ConnectionError") THEN "ConnectionError"
    ELSE IF IsInstance(e, "RequestException") THEN "RequestException"
    ELSE IF IsInstance(e, "KeyboardInterrupt") THEN "KeyboardInterrupt"
    ELSE ""

\* Seconds slept by each except clause.
ClauseSleep(c) ==
    IF c \in {"ConnectionError", "RequestException"} THEN RetryDelay ELSE 0

\* An except clause that recovers: sleep, then fall through to line 200.
Recover(c) ==
    /\ pc = "except"
    /\ ExceptClause(exc) = c
    /\ waited' = ClauseSleep(c)
    /\ pc' = "reconnect"
    /\ UNCHANGED <<kbps, last_seq_num, exc, exitCause, handlerLocals, sendLocals,
                   evHead, evState, evExc, evLog, sendHist, feedHist>>

\* Lines 183-185.
ExceptChunkedEncodingError == Recover("ChunkedEncodingError")

\* Lines 187-190.
ExceptConnectionError == Recover("ConnectionError")

\* Lines 192-195.
ExceptRequestException == Recover("RequestException")

\* Lines 197-198: except KeyboardInterrupt: exit().
ExceptKeyboardInterrupt ==
    /\ pc = "except"
    /\ ExceptClause(exc) = "KeyboardInterrupt"
    /\ pc' = "exited"
    /\ exitCause' = exc
    /\ UNCHANGED <<kbps, last_seq_num, exc, waited, handlerLocals, sendLocals,
                   evHead, evState, evExc, evLog, sendHist, feedHist>>

\* No clause of lines 183-198 takes the exception: it leaves run.
Propagate ==
    /\ pc = "except"
    /\ ExceptClause(exc) = ""
    /\ pc' = "exited"
    /\ exitCause' = exc
    /\ UNCHANGED <<kbps, last_seq_num, exc, waited, handlerLocals, sendLocals,
                   evHead, evState, evExc, evLog, sendHist, feedHist>>

\* Reconnect starting afresh: the known position is forgotten.
Reconnect_ResetState ==
    /\ pc = "reconnect"
    /\ pc' = "connect"
    /\ exc' = ""
    /\ waited' = 0
    /\ last_seq_num' = None
    /\ UNCHANGED <<kbps, exitCause, handlerLocals, sendLocals,
                   evHead, evState, evExc, evLog, sendHist, feedHist>>

\* Line 200, and back to the top of the while loop.
Reconnect ==
    /\ pc = "reconnect"
    /\ pc' = "connect"
    /\ exc' = ""
    /\ waited' = 0
    /\ UNCHANGED <<kbps, last_seq_num, exitCause, handlerLocals, sendLocals,
                   evHead, evState, evExc, evLog, sendHist, feedHist>>

\* The operator interrupts the process: inside the try block the
\* KeyboardInterrupt reaches the except clauses, elsewhere (an except
\* clause sleeping, line 200) it leaves run directly.
Interrupt ==
    /\ \/ /\ pc \in TryPcs
          /\ Raise("KeyboardInterrupt")
          /\ UNCHANGED exitCause
       \/ /\ pc \in {"except", "reconnect"}
          /\ pc' = "exited"
          /\ exitCause' = "KeyboardInterrupt"
          /\ UNCHANGED <<exc, handlerLocals, sendLocals, sendHist, evState, evExc>>
    /\ UNCHANGED <<kbps, last_seq_num, waited, evHead, evLog, feedHist>>

\* ------------------------------------------------------ _handle_event
\* IsTrigger without the status test: every event is processed.
IsTrigger_Always(status) == TRUE

\* Line 106: does the event's status match the configured trigger?
IsTrigger(status) == status = tx_event

\* RolledBack with the comparison turned round.
RolledBack_Flipped(seq, last) == last # None /\ seq > last

\* Line 115: has the sequence number rolled back?

RolledBack(seq, last) == last # None /\ seq < last

\* NextSeqNum stepping by two.
NextSeqNum_SkipOne(seq, last) == IF last = None THEN seq ELSE last + 2

\* NextSeqNum going straight to the event's number, without catching up.
NextSeqNum_Jump(seq, last) == seq

\* Lines 123-126: the sequence number of this loop iteration.
NextSeqNum(seq, last) == IF last = None THEN seq ELSE last + 1

\* What order["message_size"] does at line 139: a parsed event is a dict
\* and yields the value; an ApiOrder yields a value if the class supports
\* subscripting and raises TypeError if it does not.
SubscriptOutcomes(kind) ==
    IF kind = "dict" THEN {"value"} ELSE {"value", "TypeError"}

\* Lines 180-181 and 100-120: the next event of the stream is handed to
\* _handle_event, which parses it, returns at once unless its status is the
\* trigger, and resets last_seq_num when the sequence number rolled back.
HandleEvent ==
    /\ pc = "events"
    /\ \E ev \in Events :
        LET trig == IsTrigger(ev.status)
            rolled == RolledBack(ev.tx_seq_num, last_seq_num)
            gl == gapless /\ (prevTrig = None \/ ev.tx_seq_num = prevTrig + 1)
        IN  /\ entryLast' = last_seq_num
            /\ evStatus' = ev.status
            /\ evSeq' = ev.tx_seq_num
            /\ evExc' = ""
            /\ evFetched' = <<>>
            /\ evNone' = {}
            /\ evConfirmed' = <<>>
            /\ IF trig
               THEN /\ order' = [kind |-> "dict", status |-> ev.status,
                                 tx_seq_num |-> ev.tx_seq_num,
                                 message_size |-> ev.message_size]
                    /\ seq_num' = ev.tx_seq_num
                    /\ last_seq_num' = IF rolled THEN None ELSE last_seq_num
                    /\ evAssigned' = IF rolled THEN <<None>> ELSE <<>>
                    /\ rx_pending' = TRUE
                    /\ pc' = "loop"
                    /\ evState' = "running"
                    /\ gapless' = gl
                    /\ firstTrig' = IF ~gl THEN None
                                  ELSE IF prevTrig = None THEN ev.tx_seq_num
                                  ELSE firstTrig
                    /\ prevTrig' = IF gl THEN ev.tx_seq_num ELSE None
                    /\ allFetched' = IF gl THEN allFetched ELSE <<>>
               ELSE /\ pc' = "events"
                    /\ evState' = "returned"
                    /\ evAssigned' = <<>>
                    /\ UNCHANGED <<order, seq_num, last_seq_num, rx_pending, feedHist>>
    /\ UNCHANGED <<kbps, exc, waited, exitCause, next_seq_num, data, pkts,
                   sendLocals, sendHist>>

\* Lines 121-139: one pass of the while loop up to the log line.  The log
\* line reads order["message_size"]: order is the parsed event in the first
\* pass and the ApiOrder of the previous pass afterwards, and subscripting
\* an ApiOrder either works or raises TypeError.
LoopIter ==
    /\ pc = "loop"
    /\ rx_pending
    /\ LET next == NextSeqNum(seq_num, last_seq_num)
       IN  /\ next <= MaxSeq + 1
           /\ last_seq_num' = next
           /\ evAssigned' = Append(evAssigned, next)
           /\ \/ /\ "value" \in SubscriptOutcomes(order.kind)
                 /\ next_seq_num' = next
                 /\ rx_pending' = (seq_num # next)
                 /\ pc' = "fetch"
                 /\ UNCHANGED <<exc, order, seq_num, data, pkts, sendLocals,
                                sendHist, evState, evExc>>
              \/ /\ "TypeError" \in SubscriptOutcomes(order.kind)
                 /\ Raise("TypeError")
    /\ UNCHANGED <<kbps, waited, exitCause, evHead, evFetched, evNone,
                   evConfirmed, feedHist>>

\* Line 121 with rx_pending false: the loop ends and _handle_event returns.
HandleReturn ==
    /\ pc = "loop"
    /\ ~rx_pending
    /\ pc' = "events"
    /\ evState' = "returned"
    /\ ClearLocals
    /\ UNCHANGED <<kbps, last_seq_num, exc, waited, exitCause, evHead, evExc,
                   evLog, feedHist>>

\* GetData leaving the loop (break) on an empty payload.
GetData_BreakOnNone ==
    /\ pc = "fetch"
    /\ evFetched' = Append(evFetched, next_seq_num)
    /\ allFetched' = IF gapless THEN Append(allFetched, next_seq_num)
                     ELSE allFetched
    /\ \/ /\ \E n \in 1..MaxData : data' = n
          /\ pc' = "split"
          /\ order' = [kind |-> "ApiOrder", seq_num |-> next_seq_num]
          /\ UNCHANGED <<exc, seq_num, rx_pending, next_seq_num, pkts,
                         sendLocals, sendHist, evState, evExc, evNone>>
       \/ /\ data' = None
          /\ pc' = "loop"
          /\ rx_pending' = FALSE
          /\ evNone' = evNone \cup {next_seq_num}
          /\ order' = [kind |-> "ApiOrder", seq_num |-> next_seq_num]
          /\ UNCHANGED <<exc, seq_num, next_seq_num, pkts,
                         sendLocals, sendHist, evState, evExc>>
       \/ /\ \E e \in RequestFailures : Raise(e)
          /\ UNCHANGED evNone
    /\ UNCHANGED <<kbps, last_seq_num, waited, exitCause, evHead, evAssigned,
                   evConfirmed, gapless, firstTrig, prevTrig>>

\* Lines 142-150: order is rebound to the ApiOrder of next_seq_num and its
\* payload is fetched: bytes, None (continue) or a request failure.
GetData ==
    /\ pc = "fetch"
    /\ evFetched' = Append(evFetched, next_seq_num)
    /\ allFetched' = IF gapless THEN Append(allFetched, next_seq_num)
                     ELSE allFetched
    /\ \/ /\ \E n \in 1..MaxData : data' = n
          /\ pc' = "split"
          /\ order' = [kind |-> "ApiOrder", seq_num |-> next_seq_num]
          /\ UNCHANGED <<exc, seq_num, rx_pending, next_seq_num, pkts,
                         sendLocals, sendHist, evState, evExc, evNone>>
       \/ /\ data' = None
          /\ pc' = "loop"
          /\ evNone' = evNone \cup {next_seq_num}
          /\ order' = [kind |-> "ApiOrder", seq_num |-> next_seq_num]
          /\ UNCHANGED <<exc, seq_num, rx_pending, next_seq_num, pkts,
                         sendLocals, sendHist, evState, evExc>>
       \/ /\ \E e \in RequestFailures : Raise(e)
          /\ UNCHANGED evNone
    /\ UNCHANGED <<kbps, last_seq_num, waited, exitCause, evHead, evAssigned,
                   evConfirmed, gapless, firstTrig, prevTrig>>

\* Split handing the payload to the confirmation before it is dispatched.
Split_ConfirmFirst ==
    /\ pc = "split"
    /\ pkts' = Frags(data, next_seq_num, channel)
    /\ pc' = "confirm"
    /\ UNCHANGED <<kbps, last_seq_num, exc, waited, exitCause, order, seq_num,
                   rx_pending, next_seq_num, data, sendLocals, evHead, evState,
                   evExc, evLog, sendHist, feedHist>>

\* Split going back to the loop with the payload neither dispatched nor
\* confirmed.
Split_SkipDispatch ==
    /\ pc = "split"
    /\ pkts' = Frags(data, next_seq_num, channel)
    /\ pc' = "loop"
    /\ UNCHANGED <<kbps, last_seq_num, exc, waited, exitCause, order, seq_num,
                   rx_pending, next_seq_num, data, sendLocals, evHead, evState,
                   evExc, evLog, sendHist, feedHist>>

\* Lines 153-158: the payload is split into packets, or the packet handler
\* fails (with an exception that is no request failure).
Split ==
    /\ pc = "split"
    /\ \/ /\ pkts' = Frags(data, next_seq_num, channel)
          /\ pc' = "send"
          /\ UNCHANGED <<exc, order, seq_num, rx_pending, next_seq_num, data,
                         sendLocals, evState, evExc, sendHist>>
       \/ Raise("ValueError")
    /\ UNCHANGED <<kbps, last_seq_num, waited, exitCause, evHead, evLog,
                   feedHist>>

\* Line 164: order.confirm_tx(self.regions) returns, or fails.
ConfirmTx ==
    /\ pc = "confirm"
    /\ \/ /\ evConfirmed' = Append(evConfirmed, order.seq_num)
          /\ pc' = "loop"
          /\ data' = None
          /\ pkts' = <<>>
          /\ i' = 0
          /\ j' = 0
          /\ next_tx' = 0
          /\ now' = 0
          /\ sent' = <<>>
          /\ late' = FALSE
          /\ wEnd' = 0
          /\ ov' = 0
          /\ UNCHANGED <<exc, order, seq_num, rx_pending, next_seq_num,
                         evState, evExc>>
       \/ /\ \E e \in RequestFailures : Raise(e)
          /\ UNCHANGED evConfirmed
    /\ UNCHANGED <<kbps, last_seq_num, waited, exitCause, evHead, evAssigned,
                   evFetched, evNone, feedHist>>

\* --------------------------------------------------------- _send_pkts
\* Lines 74-79: byte_rate, next_tx = time.time(), first packet.
SendPktsEnter ==
    /\ pc = "send"
    /\ next_tx' = 0
    /\ now' = 0
    /\ i' = 0
    /\ j' = 0
    /\ pc' = IF Len(pkts) = 0 THEN "confirm" ELSE "sock"
    /\ UNCHANGED <<kbps, last_seq_num, exc, waited, exitCause, handlerLocals,
                   evHead, evState, evExc, evLog, sendHist, feedHist>>

\* Lines 81-83: packet i goes out on socket j; the write takes some time,
\* or fails with an OSError.
SockSend ==
    /\ pc = "sock"
    /\ \/ /\ \E d \in 0..MaxWriteDur : now' = now + d
          /\ sent' = Append(sent, [seq_num |-> pkts[i + 1].seq_num,
                                   frag |-> pkts[i + 1].frag, sock |-> j])
          /\ j' = j + 1
          /\ pc' = IF j + 1 = NumSocks THEN "throttle" ELSE "sock"
          /\ UNCHANGED <<exc, handlerLocals, i, next_tx, late, wEnd, ov,
                         evState, evExc>>
       \/ Raise("OSError")
    /\ UNCHANGED <<kbps, last_seq_num, waited, exitCause, evHead, evLog, feedHist>>

\* Deadline restarted from the current time for every packet.
Deadline_Reset(ntx, tx_delay, t) == t + tx_delay

\* Lines 86-87: the deadline advances by the packet's slot.
Deadline(ntx, tx_delay, t) == ntx + tx_delay

\* NextIndex dropping a packet to catch up when the deadline has passed.
NextIndex_SkipWhenLate(idx, sleep) == IF sleep > 0 THEN idx + 1 ELSE idx + 2

\* Line 79: enumerate moves on to the next packet, however long the sleep.
NextIndex(idx, sleep) == idx + 1

\* Lines 86-90 and back to line 79: the deadline advances by the packet's
\* slot and the thread sleeps until it, if it lies in the future; after the
\* final packet _send_pkts returns.
Throttle ==
    /\ pc = "throttle"
    /\ LET tx_delay == TxDelay(pkts[i + 1].len, kbps)
           deadline == Deadline(next_tx, tx_delay, now)
           sleep == deadline - now
           final == (NextIndex(i, sleep) >= Len(pkts))
       IN  /\ next_tx' = deadline
           /\ IF sleep > 0
              THEN \E o \in 0..MaxOvershoot :
                        /\ now' = now + sleep + o
                        /\ ov' = IF final THEN o ELSE 0
                        /\ late' = late
              ELSE /\ now' = now
                   /\ ov' = 0
                   /\ late' = TRUE
           /\ wEnd' = IF final THEN now ELSE 0
           /\ i' = NextIndex(i, sleep)
           /\ j' = 0
           /\ pc' = IF final THEN "confirm" ELSE "sock"
    /\ UNCHANGED <<kbps, last_seq_num, exc, waited, exitCause, handlerLocals,
                   sent, evHead, evState, evExc, evLog, feedHist>>

\* ------------------------------------------------------------ the machine
Next ==
    \/ Connect
    \/ StreamFail
    \/ StreamEnd
    \/ ExceptChunkedEncodingError
    \/ ExceptConnectionError
    \/ ExceptRequestException
    \/ ExceptKeyboardInterrupt
    \/ Propagate
    \/ Reconnect
    \/ Interrupt
    \/ HandleEvent
    \/ LoopIter
    \/ HandleReturn
    \/ GetData
    \/ Split
    \/ ConfirmTx
    \/ SendPktsEnter
    \/ SockSend
    \/ Throttle

Spec == Init /\ [][Next]_vars

TypeOK ==
    /\ kbps \in KbpsChoices
    /\ last_seq_num \in {None} \cup 0..(MaxSeq + 1)
    /\ pc \in TryPcs \cup {"except", "reconnect", "exited"}
    /\ rx_pending \in BOOLEAN
    /\ waited \in {0, RetryDelay}

\* ================================================================ claims
\* The sequence a, a+1, ..., b.
Range(a, b) == [k \in 1..(b - a + 1) |-> a + k - 1]

SeqToSet(q) == {q[k] : k \in 1..Len(q)}

\* _handle_event has ended, and not because a collaborator failed or the
\* operator interrupted it.
EndedByItself ==
    /\ evState \in {"returned", "raised"}
    /\ evExc \notin RequestFailures \cup
                        {"OSError", "ValueError", "KeyboardInterrupt"}

\* A trigger event that is ahead of the known position by two or more.
GapEvent ==
    /\ evStatus = tx_event
    /\ entryLast # None
    /\ evSeq > entryLast + 1

\* C1: for a trigger event with tx_seq_num > last_seq_num + 1, what
\* _handle_event has fetched is at any moment an initial part of
\* last_seq_num+1, ..., tx_seq_num, last_seq_num has taken the same values,
\* and _handle_event ends only by returning after the whole range.
C1_CatchUpFetchesWholeGap ==
    GapEvent =>
        /\ Len(evFetched) <= evSeq - entryLast
        /\ evFetched = SubSeq(Range(entryLast + 1, evSeq), 1, Len(evFetched))
        /\ Len(evAssigned) <= evSeq - entryLast
        /\ evAssigned = SubSeq(Range(entryLast + 1, evSeq), 1, Len(evAssigned))
        /\ (EndedByItself =>
                /\ evState = "returned"
                /\ evFetched = Range(entryLast + 1, evSeq)
                /\ last_seq_num = evSeq)

\* C2: while the trigger events have come without a gap, starting from a
\* null last_seq_num, every event takes one loop iteration and one fetch,
\* of its own tx_seq_num, all the fetches so far are firstTrig, firstTrig+1,
\* ... in order, and when _handle_event returns last_seq_num is the
\* event's tx_seq_num.
C2_GaplessEventsOnceEach ==
    (gapless /\ prevTrig # None) =>
        /\ Len(allFetched) <= prevTrig - firstTrig + 1
        /\ allFetched = SubSeq(Range(firstTrig, prevTrig), 1, Len(allFetched))
        /\ (evStatus = tx_event =>
                /\ evSeq = prevTrig
                /\ Len(evAssigned) <= 1
                /\ evFetched \in {<<>>, <<evSeq>>}
                /\ (evState = "returned" =>
                        /\ last_seq_num = evSeq
                        /\ evAssigned = <<evSeq>>
                        /\ evFetched = <<evSeq>>
                        /\ allFetched = Range(firstTrig, evSeq)))

C2_Witness ==
    /\ gapless
    /\ evStatus = tx_event
    /\ evState = "returned"
    /\ Len(allFetched) >= 3
    /\ last_seq_num = evSeq

\* A trigger event whose tx_seq_num is below the known position.
RollbackEvent ==
    /\ evStatus = tx_event
    /\ entryLast # None
    /\ evSeq < entryLast

\* C3: a trigger event with tx_seq_num < last_seq_num first resets
\* last_seq_num to null, then processes tx_seq_num and nothing else, and
\* _handle_event returns with last_seq_num = tx_seq_num.
C3_RollbackRestartsAtEvent ==
    RollbackEvent =>
        /\ evAssigned \in {<<None>>, <<None, evSeq>>}
        /\ evFetched \in {<<>>, <<evSeq>>}
        /\ last_seq_num = evAssigned[Len(evAssigned)]
        /\ (evState = "returned" =>
                /\ evAssigned = <<None, evSeq>>
                /\ evFetched = <<evSeq>>
                /\ last_seq_num = evSeq)

C3_Witness ==
    /\ RollbackEvent
    /\ evState = "returned"
    /\ entryLast = 3
    /\ evSeq = 1
    /\ last_seq_num = 1

\* C4: an event whose status is not the trigger is returned from at once:
\* nothing is fetched, written or confirmed and last_seq_num keeps the
\* value it had, whatever that value and the event's tx_seq_num are.
C4_OtherStatusDoesNothing ==
    (evState # "idle" /\ evStatus # tx_event) =>
        /\ evState = "returned"
        /\ pc \notin HandlerPcs
        /\ evFetched = <<>>
        /\ sent = <<>>
        /\ evConfirmed = <<>>
        /\ evAssigned = <<>>
        /\ last_seq_num = entryLast

C4_Witness ==
    /\ evState = "returned"
    /\ evStatus # tx_event
    /\ entryLast # None
    /\ evSeq < entryLast
    /\ last_seq_num = entryLast

\* The loop iteration that has just ended is one whose fetch returned None.
AfterNone ==
    /\ pc = "loop"
    /\ evFetched # <<>>
    /\ evFetched[Len(evFetched)] \in evNone

\* C5 (state part): a sequence number whose fetch returned None has no
\* packet written and no confirmation, last_seq_num was advanced to it, and
\* right after such a fetch control is back at the head of the loop with
\* rx_pending telling whether tx_seq_num has been reached.
C5_NoneState ==
    /\ \A n \in evNone :
            /\ n \notin SeqToSet(evConfirmed)
            /\ \A k \in 1..Len(sent) : sent[k].seq_num # n
            /\ n \in SeqToSet(evAssigned)
            /\ n \in SeqToSet(evFetched)
    /\ AfterNone =>
            /\ last_seq_num = evFetched[Len(evFetched)]
            /\ sent = <<>>
            /\ rx_pending = (last_seq_num # seq_num)

\* C5 (step part): the step that follows a None fetch is the next loop
\* iteration, for the next sequence number, when tx_seq_num has not been
\* reached, and the return of _handle_event when it has; the None fetch
\* itself writes and confirms nothing.
C5_NoneStep ==
    /\ (pc = "fetch" /\ evNone' # evNone) =>
            /\ pc' = "loop"
            /\ last_seq_num' = last_seq_num
            /\ evConfirmed' = evConfirmed
            /\ sent' = sent
    /\ (AfterNone /\ exc' # "KeyboardInterrupt") =>
            IF last_seq_num # seq_num
            THEN /\ last_seq_num' = last_seq_num + 1
                 /\ evAssigned' = Append(evAssigned, last_seq_num + 1)
                 /\ pc' \in {"fetch", "except"}
            ELSE /\ pc' = "events"
                 /\ evState' = "returned"
                 /\ last_seq_num' = last_seq_num

\* C5: an empty payload is a no-op that does not abort the loop.
C5_EmptyPayloadIsNoOp == [](C5_NoneState) /\ [][C5_NoneStep]_vars

C5_Witness ==
    /\ pc = "fetch"
    /\ evNone # {}
    /\ evFetched[Len(evFetched)] \in evNone
    /\ next_seq_num = evFetched[Len(evFetched)] + 1

\* C6 (step): last_seq_num changes from a non-null v to a non-null value
\* only by becoming v + 1, becomes null only from a non-null value above the
\* tx_seq_num of a trigger event, and leaves null only for the tx_seq_num of
\* the event being handled.
C6_Step ==
    (last_seq_num' # last_seq_num) =>
        /\ (last_seq_num # None /\ last_seq_num' # None) =>
                last_seq_num' = last_seq_num + 1
        /\ (last_seq_num' = None) =>
                /\ evStatus' = tx_event
                /\ evSeq' < last_seq_num
        /\ (last_seq_num = None) =>
                /\ evStatus = tx_event
                /\ last_seq_num' = evSeq

\* C6: the sequence state steps by one, is reset on a rollback, or restarts.
C6_SequenceStateSteps == [][C6_Step]_vars

C6_Witness ==
    /\ Len(evAssigned) >= 3
    /\ evAssigned[1] # None
    /\ last_seq_num = evAssigned[3]

\* The write that stands at place k (from 1) of a complete _send_pkts call.
ExpectedWrite(k) ==
    LET p == (k - 1) \div NumSocks
    IN  [seq_num |-> pkts[p + 1].seq_num, frag |-> pkts[p + 1].frag,
         sock |-> (k - 1) % NumSocks]

\* C7: at every moment of _send_pkts the writes done are the first
\* i * NumSocks + j of: packet 0 on every socket in socket order, then
\* packet 1 on every socket, ...; and when _send_pkts returns every packet
\* has been written once on every socket, deadlines passed or not.
C7_EveryPacketOnEverySocket ==
    (pc \in {"sock", "throttle", "confirm"}) =>
        /\ Len(sent) = i * NumSocks + j
        /\ \A k \in 1..Len(sent) : sent[k] = ExpectedWrite(k)
        /\ (pc = "throttle" => j = NumSocks)
        /\ (pc = "confirm" => i = Len(pkts) /\ j = 0)
        /\ \A p \in 1..Len(pkts) : pkts[p].frag = p - 1

C7_Witness ==
    /\ pc = "confirm"
    /\ Len(pkts) >= 2
    /\ late
    /\ Len(sent) = Len(pkts) * NumSocks

\* L*8/(R*1000) seconds, in milliseconds.
NominalDuration == (SumLen(pkts) * 8) \div kbps

\* C8 as stated: when _send_pkts returns the time spent is L*8/(R*1000)
\* seconds, give or take the oversleep of the final sleep, whatever the
\* write durations were.
C8_DurationIsNominal ==
    (pc = "confirm") =>
        /\ now >= NominalDuration
        /\ now <= NominalDuration + ov

\* C8 amended: the time spent is L*8/(R*1000) seconds (plus the oversleep
\* of the final sleep) when the writes of the final packet end before the
\* accumulated deadline, and the time at which those writes end otherwise.
C8_DurationIsMaxOfNominalAndWrites ==
    (pc = "confirm") =>
        /\ next_tx = NominalDuration
        /\ now = IF wEnd < NominalDuration THEN NominalDuration + ov ELSE wEnd
        /\ now >= NominalDuration

C8_Witness ==
    /\ pc = "confirm"
    /\ Len(pkts) >= 2
    /\ wEnd > NominalDuration
    /\ now = wEnd

\* C9 (state part): when an except clause of run has recovered from a
\* failure, it slept nothing for a ChunkedEncodingError and RetryDelay for
\* any other request failure.
C9_State ==
    /\ (pc = "reconnect" /\ exc # "") =>
            /\ IsInstance(exc, "RequestException")
            /\ waited = IF exc = "ChunkedEncodingError" THEN 0 ELSE RetryDelay
    /\ (pc = "exited") => ~IsInstance(exitCause, "RequestException")

\* C9 (step part): a request failure is followed by the recovery, and the
\* recovery by a new connection attempt, unless the operator interrupts.
C9_Step ==
    /\ (pc = "except" /\ IsInstance(exc, "RequestException")) =>
            \/ pc' = "reconnect"
            \/ exitCause' = "KeyboardInterrupt"
    /\ (pc = "reconnect") =>
            \/ pc' = "connect"
            \/ exitCause' = "KeyboardInterrupt"

\* C9: the retry policy of the subscription loop.
C9_RetryPolicy == [](C9_State) /\ [][C9_Step]_vars

C9_Witness ==
    /\ pc = "reconnect"
    /\ exc = "HTTPError"
    /\ waited = RetryDelay
    /\ last_seq_num # None

\* C10: run is left only through the operator's interrupt.  (A failing
\* output write or fragmentation, which no except clause of run takes
\* either, is set aside here: the claim is about failures of the network
\* calls.)
C10_RunEndsOnlyOnInterrupt ==
    (pc = "exited") =>
        exitCause \in {"KeyboardInterrupt", "OSError", "ValueError"}

\* The fetched sequence numbers whose payload was not empty.
NonEmptyOf(q) == SelectSeq(q, LAMBDA n : n \notin evNone)

\* C11 (state part): the confirmations of an event are, in order and once
\* each, the fetched sequence numbers with a non-empty payload whose loop
\* iteration is over; the one still being dispatched is not confirmed.
C11_State ==
    /\ (pc = "loop" \/ (evState = "returned" /\ evStatus = tx_event)) =>
            evConfirmed = NonEmptyOf(evFetched)
    /\ (pc \in {"split", "send", "sock", "throttle", "confirm"}) =>
            /\ evFetched # <<>>
            /\ evFetched[Len(evFetched)] = next_seq_num
            /\ evConfirmed =
                    NonEmptyOf(SubSeq(evFetched, 1, Len(evFetched) - 1))
    /\ \A a, b \in 1..Len(evConfirmed) :
            (evConfirmed[a] = evConfirmed[b]) => a = b

\* C11 (step part): a confirmation is emitted only by line 164, for the
\* sequence number just dispatched, when every packet of it has been
\* written on every socket.
C11_Step ==
    (evConfirmed' # evConfirmed /\ evConfirmed' # <<>>) =>
        /\ pc = "confirm"
        /\ evConfirmed' = Append(evConfirmed, next_seq_num)
        /\ next_seq_num \notin evNone
        /\ pkts # <<>>
        /\ Len(sent) = Len(pkts) * NumSocks
        /\ \A k \in 1..Len(sent) : sent[k] = ExpectedWrite(k)
        /\ \A k \in 1..Len(sent) : sent[k].seq_num = next_seq_num

\* C11: one confirmation per non-empty sequence number, after its dispatch.
C11_ConfirmAfterDispatch == [](C11_State) /\ [][C11_Step]_vars

C11_Witness ==
    /\ pc = "loop"
    /\ Len(evConfirmed) >= 2
    /\ evNone # {}

\* The step is a call of get_data (line 142).
FetchStep == evFetched' # evFetched /\ evFetched' # <<>>

\* The step reads the next event of the stream (line 180).
EventStep == pc = "events" /\ pc' \in {"events", "loop"}

\* C12 (fetch part): when a sequence number is fetched, nothing of an earlier
\* one is pending: each earlier number of the event was empty or has been
\* confirmed, no payload, packet or write of it is left, and the number
\* fetched is the one after the last fetched.
C12_FetchStep ==
    FetchStep =>
        /\ pc = "fetch"
        /\ evState = "running"
        /\ evFetched' = Append(evFetched, next_seq_num)
        /\ data = None /\ pkts = <<>> /\ sent = <<>>
        /\ \A k \in 1..Len(evFetched) :
                /\ evFetched[k] \in evNone \cup SeqToSet(evConfirmed)
                /\ evFetched[k] < next_seq_num
        /\ evFetched # <<>> => next_seq_num = evFetched[Len(evFetched)] + 1

\* C12 (event part): an event is read only when no event is being handled:
\* the previous call of _handle_event has returned or raised, and none of
\* its locals is left.
C12_EventStep ==
    EventStep =>
        /\ evState # "running"
        /\ ~rx_pending
        /\ data = None /\ pkts = <<>> /\ sent = <<>>
        /\ (evState = "returned" /\ evStatus = tx_event) =>
                /\ last_seq_num = evSeq
                /\ \A k \in 1..Len(evFetched) :
                        evFetched[k] \in evNone \cup SeqToSet(evConfirmed)

\* C12: the handler is running exactly while control is inside it, one
\* sequence number and one event at a time.
C12_StrictlySequential ==
    /\ [](evState = "running" <=> pc \in HandlerPcs)
    /\ [][C12_FetchStep /\ C12_EventStep]_vars

C12_Witness ==
    /\ pc = "split"
    /\ Len(evFetched) >= 2
    /\ evConfirmed # <<>>
    /\ entryLast # None

\* The deadline after the first n packets: the time their bytes take at the
\* configured rate, counted from the entry of _send_pkts (t0 = 0), in ms.
AccumulatedDeadline(n) == (SumLen(SubSeq(pkts, 1, n)) * 8) \div kbps

\* C13 (state part): next_tx depends on the sizes of the packets handled so
\* far only, and a packet's writes never start before the deadline of the
\* packets before it; _send_pkts never returns before the last deadline.
C13_State ==
    /\ (pc \in {"sock", "throttle"}) =>
            /\ next_tx = AccumulatedDeadline(i)
            /\ now >= next_tx
    /\ (pc = "confirm" /\ pkts # <<>>) =>
            /\ next_tx = AccumulatedDeadline(Len(pkts))
            /\ now >= AccumulatedDeadline(Len(pkts))

\* C13 (step part): after the writes of a packet the deadline advances by
\* the packet's slot, from its old value and not from the current time, and
\* the thread sleeps until it if and only if it lies in the future.
C13_Step ==
    (pc = "throttle" /\ pc' \in {"sock", "confirm"}) =>
        LET deadline == AccumulatedDeadline(i + 1)
        IN  /\ next_tx' = deadline
            /\ IF deadline > now
               THEN now' >= deadline /\ now' <= deadline + MaxOvershoot
               ELSE now' = now

\* C13: the deadline accumulates from t0 and paces every packet.
C13_DeadlineAccumulates == [](C13_State) /\ [][C13_Step]_vars

C13_Witness ==
    /\ pc = "throttle"
    /\ i = 1
    /\ late
    /\ AccumulatedDeadline(2) > now

\* A trigger event whose number wrapped: the position known at entry is the
\* last number below the modulus and the event carries 0 or 1.
WrapEvent ==
    /\ evState # "idle"
    /\ evStatus = tx_event
    /\ entryLast = MAX_SEQ_NUM - 1
    /\ evSeq \in {0, 1}

\* C14: an event whose number wrapped does not take the rollback branch:
\* last_seq_num is not reset to null (the first assignment of the event, if
\* any, is that of line 129).
C14_WrapIsNotRollback ==
    WrapEvent => (evAssigned = <<>> \/ evAssigned[1] # None)

\* The failures of the collaborators of _handle_event: the payload fetch and
\* the confirmation (request failures), the fragmentation, an output write.
CollaboratorFailures == RequestFailures \cup {"ValueError", "OSError"}

\* C15 (state part): a failure inside _handle_event ends the call: control
\* is outside the handler, no iteration is pending, and after a failure of
\* a collaborator the failing sequence number is the last one fetched, it
\* is not confirmed, and no number after it was fetched.
C15_State ==
    /\ evExc # "" => evState = "raised"
    /\ evState = "raised" =>
            /\ pc \notin HandlerPcs
            /\ ~rx_pending
            /\ data = None /\ pkts = <<>> /\ sent = <<>>
    /\ (evState = "raised" /\ evExc \in CollaboratorFailures) =>
            /\ evFetched # <<>>
            /\ evFetched[Len(evFetched)] = last_seq_num
            /\ last_seq_num \notin SeqToSet(evConfirmed)
            /\ \A k \in 1..Len(evFetched) : evFetched[k] <= last_seq_num

\* C15 (step part): from the failure until the next event is read, nothing
\* is fetched, written or confirmed and last_seq_num stays.
C15_Step ==
    (evExc # "" /\ evExc' = evExc) =>
        /\ UNCHANGED <<evFetched, evNone, evConfirmed, evAssigned>>
        /\ sent' = <<>>
        /\ last_seq_num' = last_seq_num

\* C15: a failure of the fetch, fragmentation, write or confirmation ends
\* the processing of the event.
C15_FailureEndsEvent == [](C15_State) /\ [][C15_Step]_vars

C15_Witness ==
    /\ evState = "raised"
    /\ evExc = "ValueError"
    /\ pc = "except"
    /\ evConfirmed # <<>>
    /\ last_seq_num < evSeq

\* A trigger event that repeats the position known at entry.
RepeatEvent ==
    /\ evState # "idle"
    /\ evStatus = tx_event
    /\ entryLast # None
    /\ evSeq = entryLast

\* C16: a trigger event that repeats the current position fetches no
\* sequence number above its own and leaves last_seq_num at its number.
C16_RepeatEventFetchesNothingNew ==
    RepeatEvent =>
        /\ \A k \in 1..Len(evFetched) : evFetched[k] <= evSeq
        /\ last_seq_num = evSeq

\* The sequence numbers of the event whose transmission was completed: the
\* payload was fetched and was empty, or it was written out and confirmed.
Transmitted == evNone \cup SeqToSet(evConfirmed)

\* C17: when run waits for the next event after a trigger event that
\* assigned last_seq_num (the call returned, or it raised and run has
\* reconnected), the number recorded in last_seq_num was transmitted.
C17_RecordedMeansTransmitted ==
    (/\ pc = "events"
     /\ evStatus = tx_event
     /\ evState \in {"returned", "raised"}
     /\ evAssigned # <<>>
     /\ last_seq_num # None) =>
        last_seq_num \in Transmitted

\* The position _handle_event left behind when it was last left: its last
\* assignment to last_seq_num, or the value at entry if it made none.
PositionLeft ==
    IF evAssigned = <<>> THEN entryLast ELSE evAssigned[Len(evAssigned)]

\* C18 (state part): outside _handle_event (connecting, waiting for an
\* event, in an except clause, sleeping before the reconnect, after run)
\* last_seq_num is what the last call of _handle_event left, null before
\* the first call.
C18_State ==
    /\ evState = "idle" => last_seq_num = None
    /\ evState \in {"returned", "raised"} => last_seq_num = PositionLeft

\* C18 (step part): last_seq_num changes only at line 119 (the rollback
\* reset, for a trigger event) and at line 129 (in the loop); no step of
\* _send_pkts or of run changes it.
C18_Step ==
    /\ (last_seq_num' # last_seq_num) =>
            \/ /\ pc = "events"
               /\ pc' = "loop"
               /\ evStatus' = tx_event
               /\ evSeq' < last_seq_num
               /\ last_seq_num' = None
            \/ /\ pc = "loop"
               /\ evState = "running"
               /\ last_seq_num' = NextSeqNum(seq_num, last_seq_num)
    /\ (pc = "events" /\ pc' = "loop" /\ last_seq_num' # None) =>
            last_seq_num' = last_seq_num

\* C18: the known position survives every failure and reconnect.
C18_OnlyHandleEventMoves == [](C18_State) /\ [][C18_Step]_vars

\* run has reconnected after a failure inside _handle_event and waits for
\* the first event, with the position the failed call left.
C18_Witness ==
    /\ pc = "events"
    /\ evState = "raised"
    /\ evExc = "ConnectionError"
    /\ Len(evAssigned) >= 2
    /\ last_seq_num = evAssigned[Len(evAssigned)]

====
